---------------------------- MODULE Spec2Model ----------------------------
(***************************************************************************)
(* ExamZen: the submission-and-grading workflow.                           *)
(*                                                                         *)
(* The document store (src/lib/db.ts) is five collections; every server    *)
(* flow is a sequence of awaited store operations, and each awaited store  *)
(* operation is one atomic step here.  A nullable / optional value is the  *)
(* empty sequence (null, undefined) or a one-element sequence <<v>>.       *)
(***************************************************************************)
EXTENDS Integers, Sequences, FiniteSets, TLC

VARIABLES
    users,        \* collection 'users'
    tests,        \* collection 'tests'
    questions,    \* collection 'questions'
    submissions,  \* collection 'submissions'
    answers,      \* collection 'answers'
    nextId,       \* next ObjectId of each collection
    clock,        \* the server's clock (new Date()), one tick per request
    calls,        \* submitTest calls in flight: position and locals
    graded,       \* score of the last successful gradeSubmission, per submission
    last,         \* the last completed call: operation, input and what it returned
    del,          \* the deleteTest call in flight: position and locals
    page,         \* the exam page: React state, pending effect, timer, invocations
    userCalls     \* registerStudent / createTeacher calls in flight

vars == <<users, tests, questions, submissions, answers, nextId, clock,
          calls, graded, last, del, page, userCalls>>

-----------------------------------------------------------------------------
(* Bounds of the model *)

MaxTests == 1
MaxQuestions == 2
MaxAnswers == 3
MaxSubmissions == 2
MaxCallers == 1
MaxUserCallers == 2

-----------------------------------------------------------------------------
(* Values *)

Null == <<>>
Some(v) == <<v>>

\* An identifier of valid format that no document carries.
UnresolvableId == 0

\* A string that is no ObjectId: new ObjectId(id) throws on it and
\* ObjectId.isValid(id) is false.
MalformedId == -1

Callers == 1..MaxCallers

RECURSIVE SeqsUpTo(_, _)
SeqsUpTo(S, n) ==
    IF n = 0 THEN {<<>>}
    ELSE LET shorter == SeqsUpTo(S, n - 1)
         IN shorter \cup {Append(s, x) : s \in {t \in shorter : Len(t) = n - 1}, x \in S}


-----------------------------------------------------------------------------
(* Inputs *)

\* Question definitions a teacher can put into createTest: two objective
\* questions with different keys and marks, and a subjective one.
QuestionInputs ==
    { [type |-> "mcq", marks |-> 1, correct_answer |-> Some("A")],
      [type |-> "mcq", marks |-> 2, correct_answer |-> Some("B")],
      [type |-> "subjective", marks |-> 1, correct_answer |-> Null] }

\* CreateTestInputSchema: at least one question.
CatalogInputs == SeqsUpTo(QuestionInputs, MaxQuestions) \ {<<>>}

\* text?: absent, empty, the keys, and near misses of the key "A".
TextInputs == {Null, Some(""), Some("A"), Some("a"), Some("A "), Some("B")}
ImageInputs == {Null, Some("img")}

TestIds == {t.id : t \in tests}
UserIds == {u.id : u \in users}
QuestionIds == {q.id : q \in questions}
SubmissionIds == {s.id : s \in submissions}

AnswerInputs(texts, images) ==
    [questionId : QuestionIds \cup {UnresolvableId}, text : texts, imageUrl : images]

-----------------------------------------------------------------------------
(* The store: src/lib/db.ts *)

getQuestionsByTest(testId) == {q \in questions : q.test_id = testId}
getSubmissionsByTest(testId) == {s \in submissions : s.test_id = testId}
getAnswersBySubmission(submissionId) == {a \in answers : a.submission_id = submissionId}

-----------------------------------------------------------------------------
(* Scoring: submitTestFlow *)

\* questions.find(q => q.id === ans.questionId): the set is empty or a singleton.
FindQuestion(qs, questionId) == {q \in qs : q.id = questionId}

\* x || null for an optional string: undefined and "" both become null.
OrNull(v) == IF v = Null \/ v = Some("") THEN Null ELSE v

\* question?.type === 'mcq'
IsMcq(found) == \E q \in found : q.type = "mcq"

\* Mutation: the comparison ignores case and surrounding blanks.
Normalised(text) == IF text \in {Some("a"), Some("A ")} THEN Some("A") ELSE text
IsCorrectAnswerLenient(found, text) ==
    \E q \in found : Normalised(q.correct_answer) = Normalised(text)

\* question.correct_answer === ans.text
IsCorrectAnswer(found, text) == \E q \in found : q.correct_answer = text

\* One element of answers.map(...): the stored answer and its correctness flag.
AnswerData(qs, ans) ==
    LET found == FindQuestion(qs, ans.questionId)
    IN [question_id |-> ans.questionId,
        answer_text |-> OrNull(ans.text),
        answer_image_url |-> OrNull(ans.imageUrl),
        is_correct |-> IF IsMcq(found) THEN Some(IsCorrectAnswer(found, ans.text)) ELSE Null]

\* The map over the submitted answers, with its two counters.
RECURSIVE ScoreAnswers(_, _)
ScoreAnswers(qs, input) ==
    IF input = <<>>
    THEN [answerData |-> <<>>, correctMcqCount |-> 0, totalMcqCount |-> 0]
    ELSE LET front == ScoreAnswers(qs, SubSeq(input, 1, Len(input) - 1))
             ans == input[Len(input)]
             found == FindQuestion(qs, ans.questionId)
         IN [answerData |-> Append(front.answerData, AnswerData(qs, ans)),
             correctMcqCount |-> front.correctMcqCount
                 + (IF IsMcq(found) /\ IsCorrectAnswer(found, ans.text) THEN 1 ELSE 0),
             totalMcqCount |-> front.totalMcqCount + (IF IsMcq(found) THEN 1 ELSE 0)]

\* Math.round(x) for x = n / d >= 0: floor(x + 1/2).  The double (c / t) * 100
\* rounds as the exact quotient does for every t below 40 (first miss: 23 of 40).
MathRound(n, d) == (2 * n + d) \div (2 * d)

\* Mutation: Math.floor in place of Math.round.
McqScoreFloor(correctMcqCount, totalMcqCount) ==
    IF totalMcqCount > 0 THEN Some((correctMcqCount * 100) \div totalMcqCount) ELSE Null

\* totalMcqCount > 0 ? Math.round((correctMcqCount / totalMcqCount) * 100) : null
McqScore(correctMcqCount, totalMcqCount) ==
    IF totalMcqCount > 0 THEN Some(MathRound(correctMcqCount * 100, totalMcqCount)) ELSE Null

\* Mutation: every in place of some.
HasSubjectiveEvery(qs) == \A q \in qs : q.type = "subjective"

\* questions.some(q => q.type === 'subjective')
HasSubjective(qs) == \E q \in qs : q.type = "subjective"

\* Mutation: the condition is inverted.
InitialFinalScoreInverted(hasSubjective, mcqScore) == IF hasSubjective THEN mcqScore ELSE Null

\* final_score: !hasSubjective ? mcqScore : null
InitialFinalScore(hasSubjective, mcqScore) == IF ~hasSubjective THEN mcqScore ELSE Null

\* status: !hasSubjective ? 'Graded' : 'Pending'
InitialStatus(hasSubjective) == IF ~hasSubjective THEN "Graded" ELSE "Pending"


-----------------------------------------------------------------------------
(* Initial state: an empty database holding the seeded admin user *)

IdleCall == [pc |-> "idle", data |-> Null, answers |-> <<>>, id |-> Null]
NoCall == [op |-> "none"]

\* No deleteTest call is in progress.
IdleDelete == [pc |-> "idle", testId |-> Null, submissionIds |-> {}]

\* The exam page after its first render: the useState initial values, no
\* interval, the timer effect of the first render already run (timeLeft is
\* null, it returned at once), no invocation of submitTest yet.
InitialPage ==
    [mounted |-> TRUE, testData |-> FALSE, answers |-> {}, timeLeft |-> Null,
     showTimeoutAlert |-> FALSE, isSubmitting |-> FALSE,
     effectPending |-> FALSE, interval |-> FALSE,
     inFlight |-> <<>>, invoked |-> 0, succeeded |-> 0, failed |-> 0]

\* No registerStudent / createTeacher call is in progress.
IdleUserCall == [pc |-> "idle", op |-> "none", role |-> "none", email |-> Null]

UserCallers == 1..MaxUserCallers

Init ==
    /\ users = {[id |-> 1, email |-> "admin@example.com", role |-> "admin"]}
    /\ tests = {}
    /\ questions = {}
    /\ submissions = {}
    /\ answers = {}
    /\ nextId = [users |-> 2, tests |-> 1, questions |-> 1, submissions |-> 1, answers |-> 1]
    /\ clock = 0
    /\ calls = [p \in Callers |-> IdleCall]
    /\ graded = <<>>
    /\ last = NoCall
    /\ del = IdleDelete
    /\ page = InitialPage
    /\ userCalls = [p \in UserCallers |-> IdleUserCall]

-----------------------------------------------------------------------------
(* Tests *)

\* createTestFlow: insert the test, then one question per entry of the input.
CreateTest(qs) ==
    /\ \E createdBy \in UserIds :
          tests' = tests \cup {[id |-> nextId.tests, created_by |-> createdBy]}
    /\ questions' = questions \cup
          { [id |-> nextId.questions + i - 1, test_id |-> nextId.tests,
             type |-> qs[i].type, marks |-> qs[i].marks,
             correct_answer |-> qs[i].correct_answer] : i \in 1..Len(qs) }
    /\ nextId' = [nextId EXCEPT !.tests = @ + 1, !.questions = @ + Len(qs)]
    /\ UNCHANGED <<users, submissions, answers, clock, calls, graded, last, del,
                   page, userCalls>>

-----------------------------------------------------------------------------
(* submitTest: submitTestFlow and db.createSubmission *)

\* Load the catalog, score the answers and build the submission document.
SubmitTestFlow(p, testId, studentId, input) ==
    /\ calls[p].pc = "idle"
    /\ LET qs == getQuestionsByTest(testId)
           scored == ScoreAnswers(qs, input)
           mcqScore == McqScore(scored.correctMcqCount, scored.totalMcqCount)
           hasSubjective == HasSubjective(qs)
       IN calls' = [calls EXCEPT ![p] =
             [pc |-> "insertOne",
              data |-> Some([test_id |-> testId,
                             student_id |-> studentId,
                             submitted_at |-> clock,
                             mcq_score |-> mcqScore,
                             final_score |-> InitialFinalScore(hasSubjective, mcqScore),
                             status |-> InitialStatus(hasSubjective)]),
              answers |-> scored.answerData,
              id |-> Null]]
    /\ clock' = clock + 1
    /\ UNCHANGED <<users, tests, questions, submissions, answers, nextId, graded, last, del,
                   page, userCalls>>

\* Mutation: one submission per test and student, a later one replaces the earlier.
CreateSubmissionInsertOneUnique(p) ==
    /\ calls[p].pc = "insertOne"
    /\ LET d == calls[p].data[1]
       IN submissions' =
             {s \in submissions : s.test_id # d.test_id \/ s.student_id # d.student_id} \cup
             {[id |-> nextId.submissions, test_id |-> d.test_id, student_id |-> d.student_id,
               submitted_at |-> d.submitted_at, mcq_score |-> d.mcq_score,
               final_score |-> d.final_score, status |-> d.status]}
    /\ nextId' = [nextId EXCEPT !.submissions = @ + 1]
    /\ calls' = [calls EXCEPT ![p].id = Some(nextId.submissions),
                              ![p].pc = IF Len(calls[p].answers) > 0
                                        THEN "insertMany" ELSE "findOne"]
    /\ UNCHANGED <<users, tests, questions, answers, clock, graded, last, del,
                   page, userCalls>>

\* submissionsCollection.insertOne({...submissionData})
CreateSubmissionInsertOne(p) ==
    /\ calls[p].pc = "insertOne"
    /\ LET d == calls[p].data[1]
       IN submissions' = submissions \cup
             {[id |-> nextId.submissions, test_id |-> d.test_id, student_id |-> d.student_id,
               submitted_at |-> d.submitted_at, mcq_score |-> d.mcq_score,
               final_score |-> d.final_score, status |-> d.status]}
    /\ nextId' = [nextId EXCEPT !.submissions = @ + 1]
    /\ calls' = [calls EXCEPT ![p].id = Some(nextId.submissions),
                              ![p].pc = IF Len(calls[p].answers) > 0
                                        THEN "insertMany" ELSE "findOne"]
    /\ UNCHANGED <<users, tests, questions, answers, clock, graded, last, del,
                   page, userCalls>>

\* answersCollection.insertMany(answersWithSubmissionId)
CreateSubmissionInsertMany(p) ==
    /\ calls[p].pc = "insertMany"
    /\ LET data == calls[p].answers
       IN /\ answers' = answers \cup
                { [id |-> nextId.answers + i - 1,
                   submission_id |-> calls[p].id[1],
                   question_id |-> data[i].question_id,
                   answer_text |-> data[i].answer_text,
                   answer_image_url |-> data[i].answer_image_url,
                   is_correct |-> data[i].is_correct] : i \in 1..Len(data) }
          /\ nextId' = [nextId EXCEPT !.answers = @ + Len(data)]
    /\ calls' = [calls EXCEPT ![p].pc = "findOne"]
    /\ UNCHANGED <<users, tests, questions, submissions, clock, graded, last, del,
                   page, userCalls>>

\* insertMany rejects (the store is unreachable): nothing catches it, the
\* error leaves createSubmission and submitTestFlow as it is.
CreateSubmissionInsertManyFails(p) ==
    /\ calls[p].pc = "insertMany"
    /\ last' = [op |-> "submitTest", outcome |-> "PersistenceError", value |-> Null,
                created |-> calls[p].id,
                testId |-> calls[p].data[1].test_id,
                studentId |-> calls[p].data[1].student_id]
    /\ calls' = [calls EXCEPT ![p] = IdleCall]
    /\ UNCHANGED <<users, tests, questions, submissions, answers, nextId, clock, graded, del,
                   page, userCalls>>

\* findOne({_id: insertedId}), then return newSubmission.id
CreateSubmissionFindOne(p) ==
    /\ calls[p].pc = "findOne"
    /\ LET found == calls[p].id[1] \in SubmissionIds
       IN last' = [op |-> "submitTest",
                   outcome |-> IF found THEN "ok" ELSE "Failed to create submission",
                   value |-> IF found THEN calls[p].id ELSE Null,
                   created |-> calls[p].id,
                   testId |-> calls[p].data[1].test_id,
                   studentId |-> calls[p].data[1].student_id]
    /\ calls' = [calls EXCEPT ![p] = IdleCall]
    /\ UNCHANGED <<users, tests, questions, submissions, answers, nextId, clock, graded, del,
                   page, userCalls>>

-----------------------------------------------------------------------------
(* gradeSubmission: gradeSubmissionFlow and db.updateSubmission *)

\* Mutation: the schema has no lower limit.
ValidFinalScoreMaxOnly(finalScore) == finalScore <= 100

\* Mutation: the schema has no upper limit.
ValidFinalScoreMinOnly(finalScore) == finalScore >= 0

\* GradeSubmissionInputSchema: z.number().min(0).max(100)
ValidFinalScore(finalScore) == finalScore >= 0 /\ finalScore <= 100

\* Mutation: a submission that is already Graded is left as it is.
UpdateSubmissionOnce(s, finalScore) ==
    IF s.status = "Graded" THEN s
    ELSE [s EXCEPT !.final_score = Some(finalScore), !.status = "Graded"]

\* Mutation: grading toggles the status.
UpdateSubmissionToggle(s, finalScore) ==
    [s EXCEPT !.final_score = Some(finalScore),
              !.status = IF s.status = "Graded" THEN "Pending" ELSE "Graded"]

\* Mutation: only the status is set.
UpdateSubmissionStatusOnly(s, finalScore) ==
    [s EXCEPT !.status = "Graded"]

\* Mutation: the update replaces the document, the objective score is lost.
UpdateSubmissionReplace(s, finalScore) ==
    [s EXCEPT !.final_score = Some(finalScore), !.status = "Graded", !.mcq_score = Null]

\* findOneAndUpdate({_id}, {$set: {final_score: finalScore, status: 'Graded'}})
UpdateSubmission(s, finalScore) ==
    [s EXCEPT !.final_score = Some(finalScore), !.status = "Graded"]

\* Mutation: the result of findOneAndUpdate is not looked at.
GradeOutcomeUnchecked(submissionId, finalScore) ==
    IF ~ValidFinalScore(finalScore) THEN "ValidationError" ELSE "ok"

\* How a call ends: the input schema is validated before the flow body runs, and
\* db.updateSubmission throws "Submission not found" when findOneAndUpdate matched
\* no document.
GradeOutcome(submissionId, finalScore) ==
    IF ~ValidFinalScore(finalScore) THEN "ValidationError"
    ELSE IF submissionId \notin SubmissionIds THEN "NotFound"
    ELSE "ok"

GradeSubmission(submissionId, finalScore) ==
    LET outcome == GradeOutcome(submissionId, finalScore)
    IN /\ last' = [op |-> "gradeSubmission", outcome |-> outcome,
                    submissionId |-> submissionId, finalScore |-> finalScore]
       /\ IF outcome = "ok"
          THEN /\ submissions' = {IF s.id = submissionId THEN UpdateSubmission(s, finalScore)
                                  ELSE s : s \in submissions}
               /\ graded' = (submissionId :> finalScore) @@ graded
          ELSE UNCHANGED <<submissions, graded>>
       /\ UNCHANGED <<users, tests, questions, answers, nextId, clock, calls, del,
                   page, userCalls>>

-----------------------------------------------------------------------------
(* getEvaluationData: getEvaluationDataFlow *)

\* subAnswers.find(a => a.question_id === q.id): the first match in store
\* (insertion) order, as the empty set or a singleton.
FindAnswer(subAnswers, q) ==
    {a \in subAnswers : /\ a.question_id = q.id
                        /\ \A b \in subAnswers : b.question_id = q.id => a.id <= b.id}

\* Mutation: an image alone does not count as an answer.
SkippedTextOnly(subAnswers, q) ==
    \A a \in FindAnswer(subAnswers, q) : a.answer_text = Null

\* !answer || (answer.answer_text === null && !answer.answer_image_url)
Skipped(subAnswers, q) ==
    \A a \in FindAnswer(subAnswers, q) : a.answer_text = Null /\ a.answer_image_url = Null

\* Mutation: only questions that some submission answered get an entry.
QuestionStatsOfAnswered(qs, allSubmissions) ==
    { LET skipCount == Cardinality({sub \in allSubmissions :
                                       Skipped(getAnswersBySubmission(sub.id), q)})
          n == Cardinality(allSubmissions)
      IN [questionId |-> q.id,
          skipPercentage |-> IF n > 0 THEN [num |-> skipCount * 100, den |-> n]
                             ELSE [num |-> 0, den |-> 1]] :
      q \in {x \in qs : \E a \in answers : a.question_id = x.id} }

\* Mutation: submissions without any answer are left out of the denominator.
QuestionStatsOfAnswering(qs, allSubmissions) ==
    { LET skipCount == Cardinality({sub \in allSubmissions :
                                       Skipped(getAnswersBySubmission(sub.id), q)})
          n == Cardinality({sub \in allSubmissions : getAnswersBySubmission(sub.id) # {}})
      IN [questionId |-> q.id,
          skipPercentage |-> IF n > 0 THEN [num |-> skipCount * 100, den |-> n]
                             ELSE [num |-> 0, den |-> 1]] : q \in qs }

\* questions.map(q => ...): the skip count of q over all submissions of the test
\* and the percentage skipCount / n * 100 as the fraction num / den (0 when n = 0).
QuestionStats(qs, allSubmissions) ==
    { LET skipCount == Cardinality({sub \in allSubmissions :
                                       Skipped(getAnswersBySubmission(sub.id), q)})
          n == Cardinality(allSubmissions)
      IN [questionId |-> q.id,
          skipPercentage |-> IF n > 0 THEN [num |-> skipCount * 100, den |-> n]
                             ELSE [num |-> 0, den |-> 1]] : q \in qs }

\* answers.map(a => ({id, question_id, answer_text, answer_image_url}))
EvaluationAnswers(subAnswers) ==
    { [id |-> a.id, question_id |-> a.question_id, answer_text |-> a.answer_text,
       answer_image_url |-> a.answer_image_url] : a \in subAnswers }

\* Mutation: only the student is checked.
AssociatedFoundStudentOnly(submission) ==
    \E u \in users : u.id = submission.student_id

\* if (!student || !test) throw ...: both lookups returned a document.
AssociatedFound(submission) ==
    /\ \E u \in users : u.id = submission.student_id
    /\ \E t \in tests : t.id = submission.test_id

GetEvaluationData(submissionId) ==
    /\ LET found == {s \in submissions : s.id = submissionId}
       IN IF found = {}
          THEN last' = [op |-> "getEvaluationData", outcome |-> "Submission not found.",
                        submissionId |-> submissionId]
          ELSE LET submission == CHOOSE s \in found : TRUE
                   allSubmissions == getSubmissionsByTest(submission.test_id)
               IN IF submission.test_id = MalformedId
                  THEN last' = [op |-> "getEvaluationData",
                                outcome |-> "Invalid ID format",
                                submissionId |-> submissionId]
                  ELSE IF ~AssociatedFound(submission)
                  THEN last' = [op |-> "getEvaluationData",
                                outcome |-> "Associated student or test not found.",
                                submissionId |-> submissionId]
                  ELSE last' =
                         [op |-> "getEvaluationData",
                          outcome |-> "ok",
                          submissionId |-> submissionId,
                          submission |-> submission,
                          answers |-> EvaluationAnswers(getAnswersBySubmission(submissionId)),
                          questions |-> getQuestionsByTest(submission.test_id),
                          questionStats |-> QuestionStats(getQuestionsByTest(submission.test_id),
                                                          allSubmissions),
                          allSubmissions |-> {s.id : s \in allSubmissions}]
    /\ UNCHANGED <<users, tests, questions, submissions, answers, nextId, clock,
                   calls, graded, del,
                   page, userCalls>>


-----------------------------------------------------------------------------
(* Listing operations: getSubmissionsByTestFlow, getSubmissionsByStudentFlow *)

\* find(...).toArray(): the matching records in store (insertion) order.
RECURSIVE StoreOrder(_)
StoreOrder(S) ==
    IF S = {} THEN <<>>
    ELSE LET first == CHOOSE s \in S : \A t \in S : s.id <= t.id
         IN <<first>> \o StoreOrder(S \ {first})

\* .sort((a, b) => new Date(b.submitted_at) - new Date(a.submitted_at)): newest first,
\* records of equal time in store order.
RECURSIVE NewestFirst(_)
NewestFirst(S) ==
    IF S = {} THEN <<>>
    ELSE LET first == CHOOSE s \in S :
                        \A t \in S : \/ s.submitted_at > t.submitted_at
                                     \/ s.submitted_at = t.submitted_at /\ s.id <= t.id
         IN <<first>> \o NewestFirst(S \ {first})

\* The row a listing returns for a submission.
SubmissionDetails(s) ==
    [id |-> s.id, test_id |-> s.test_id, submitted_at |-> s.submitted_at,
     final_score |-> s.final_score, status |-> s.status, student |-> s.student_id]

\* getSubmissionsByTestFlow: rows whose student does not resolve are filtered out.
GetSubmissionsByTest(testId) ==
    /\ last' = [op |-> "getSubmissionsByTest", outcome |-> "ok", testId |-> testId,
                rows |-> StoreOrder({SubmissionDetails(s) :
                             s \in {t \in getSubmissionsByTest(testId) :
                                      \E u \in users : u.id = t.student_id}})]
    /\ UNCHANGED <<users, tests, questions, submissions, answers, nextId, clock,
                   calls, graded, del,
                   page, userCalls>>

\* db.getTestById(submission.test_id) converts the id with toObjectId, which
\* throws 'Invalid ID format' on a string that is no ObjectId; inside Promise.all
\* that rejects the whole listing.  (db.getUserById returns null on such an id.)
ListingFails(matching) == \E s \in matching : s.test_id = MalformedId

\* getSubmissionsByStudentFlow: rows whose student or test does not resolve are
\* filtered out; the rest is sorted newest first.
GetSubmissionsByStudent(studentId) ==
    /\ LET matching == {s \in submissions : s.student_id = studentId}
       IN IF ListingFails(matching)
          THEN last' = [op |-> "getSubmissionsByStudent", outcome |-> "Invalid ID format",
                        studentId |-> studentId]
          ELSE last' = [op |-> "getSubmissionsByStudent", outcome |-> "ok",
                        studentId |-> studentId,
                        rows |-> NewestFirst({SubmissionDetails(s) :
                                     s \in {t \in matching :
                                              /\ \E u \in users : u.id = t.student_id
                                              /\ \E x \in tests : x.id = t.test_id}})]
    /\ UNCHANGED <<users, tests, questions, submissions, answers, nextId, clock,
                   calls, graded, del,
                   page, userCalls>>

\* The rows getAllSubmissionsByTeacherFlow collects: for each test created by the
\* teacher, its submissions whose student resolves.
TeacherRows(teacherId) ==
    UNION { {SubmissionDetails(s) :
                s \in {x \in getSubmissionsByTest(t.id) : \E u \in users : u.id = x.student_id}}
            : t \in {x \in tests : x.created_by = teacherId} }

\* getAllSubmissionsByTeacherFlow: the rows of all tests of the teacher, newest first.
GetAllSubmissionsByTeacher(teacherId) ==
    /\ last' = [op |-> "getAllSubmissionsByTeacher", outcome |-> "ok",
                teacherId |-> teacherId, rows |-> NewestFirst(TeacherRows(teacherId))]
    /\ UNCHANGED <<users, tests, questions, submissions, answers, nextId, clock,
                   calls, graded, del,
                   page, userCalls>>

-----------------------------------------------------------------------------
(* deleteTest: db.deleteTest issues its deletions one after the other, each an
   atomic operation of the store *)

\* submissionsCollection.find({test_id}).project({_id: 1}): the call starts by
\* reading the ids of the test's submissions; without any it skips to the questions.
DeleteTestFlow(testId) ==
    /\ del.pc = "idle"
    /\ LET submissionIds == {s.id : s \in getSubmissionsByTest(testId)}
       IN del' = [pc |-> IF submissionIds # {} THEN "answers" ELSE "questions",
                  testId |-> Some(testId), submissionIds |-> submissionIds]
    /\ UNCHANGED <<users, tests, questions, submissions, answers, nextId, clock,
                   calls, graded, last,
                   page, userCalls>>

\* answersCollection.deleteMany({submission_id: {$in: submissionIds}})
DeleteTestAnswers ==
    /\ del.pc = "answers"
    /\ answers' = {a \in answers : a.submission_id \notin del.submissionIds}
    /\ del' = [del EXCEPT !.pc = "submissions"]
    /\ UNCHANGED <<users, tests, questions, submissions, nextId, clock, calls, graded, last,
                   page, userCalls>>

\* Mutation: the filter is missing, every submission is deleted.
DeleteTestSubmissionsAll ==
    /\ del.pc = "submissions"
    /\ submissions' = {}
    /\ del' = [del EXCEPT !.pc = "questions"]
    /\ UNCHANGED <<users, tests, questions, answers, nextId, clock, calls, graded, last,
                   page, userCalls>>

\* submissionsCollection.deleteMany({test_id: testId})
DeleteTestSubmissions ==
    /\ del.pc = "submissions"
    /\ submissions' = {s \in submissions : s.test_id # del.testId[1]}
    /\ del' = [del EXCEPT !.pc = "questions"]
    /\ UNCHANGED <<users, tests, questions, answers, nextId, clock, calls, graded, last,
                   page, userCalls>>

\* questionsCollection.deleteMany({test_id: testId})
DeleteTestQuestions ==
    /\ del.pc = "questions"
    /\ questions' = {q \in questions : q.test_id # del.testId[1]}
    /\ del' = [del EXCEPT !.pc = "test"]
    /\ UNCHANGED <<users, tests, submissions, answers, nextId, clock, calls, graded, last,
                   page, userCalls>>

\* testsCollection.deleteOne({_id: testOid}); db.deleteTest returns
\* deletedCount === 1, deleteTestFlow drops that and returns true.
DeleteTestOne ==
    /\ del.pc = "test"
    /\ tests' = {t \in tests : t.id # del.testId[1]}
    /\ last' = [op |-> "deleteTest", outcome |-> "ok", value |-> Some(TRUE),
                testId |-> del.testId[1],
                deletedCount |-> Cardinality({t \in tests : t.id = del.testId[1]})]
    /\ del' = IdleDelete
    /\ UNCHANGED <<users, questions, submissions, answers, nextId, clock, calls, graded,
                   page, userCalls>>

\* Mutation: the error of a failed deletion is swallowed, the call reports success.
DeleteTestFailsSwallowed ==
    /\ del.pc \in {"answers", "submissions", "questions", "test"}
    /\ last' = [op |-> "deleteTest", outcome |-> "ok", value |-> Some(TRUE),
                testId |-> del.testId[1], failedAt |-> del.pc]
    /\ del' = IdleDelete
    /\ UNCHANGED <<users, tests, questions, submissions, answers, nextId, clock,
                   calls, graded,
                   page, userCalls>>

\* A deleteMany / deleteOne rejects (the store is unreachable): db.deleteTest
\* and deleteTestFlow have no try/catch, the error reaches the caller and the
\* deletions that were made stay.
DeleteTestFails ==
    /\ del.pc \in {"answers", "submissions", "questions", "test"}
    /\ last' = [op |-> "deleteTest", outcome |-> "PersistenceError", value |-> Null,
                testId |-> del.testId[1], failedAt |-> del.pc]
    /\ del' = IdleDelete
    /\ UNCHANGED <<users, tests, questions, submissions, answers, nextId, clock,
                   calls, graded,
                   page, userCalls>>

-----------------------------------------------------------------------------
(* The scoring specification: one test, one submission, every answer list *)

MaxScoredTests == 1
MaxScoredSubmissions == 1

ScoredAnswerInputs == SeqsUpTo(AnswerInputs(TextInputs, {Null}), MaxAnswers)

NextScoring ==
    \/ /\ nextId.tests <= MaxScoredTests
       /\ \E qs \in CatalogInputs : CreateTest(qs)
    \/ \E p \in Callers :
          /\ calls[p].pc = "idle"
          /\ nextId.submissions <= MaxScoredSubmissions
          /\ \E testId \in TestIds \cup {UnresolvableId},
                studentId \in UserIds \cup {UnresolvableId}, input \in ScoredAnswerInputs :
                SubmitTestFlow(p, testId, studentId, input)
    \/ \E p \in Callers : CreateSubmissionInsertOne(p)
    \/ \E p \in Callers : CreateSubmissionInsertMany(p)
    \/ \E p \in Callers : CreateSubmissionFindOne(p)

SpecScoring == Init /\ [][NextScoring]_vars


-----------------------------------------------------------------------------
(* The lifecycle specification: authoring, submission in steps
   with a failing answer write, grading and the grading view, interleaved *)

LifecycleCatalogs ==
    { <<[type |-> "mcq", marks |-> 1, correct_answer |-> Some("A")]>>,
      <<[type |-> "mcq", marks |-> 1, correct_answer |-> Some("A")],
        [type |-> "subjective", marks |-> 1, correct_answer |-> Null]>> }

MaxLifecycleAnswers == 1
LifecycleAnswerInputs ==
    SeqsUpTo(AnswerInputs({Null, Some("A")}, ImageInputs), MaxLifecycleAnswers)

\* finalScore: two scores in range and the nearest ones out of range.
FinalScoreInputs == {-1, 0, 88, 101}

Next ==
    \/ /\ nextId.tests <= MaxTests
       /\ \E qs \in LifecycleCatalogs : CreateTest(qs)
    \/ \E p \in Callers :
          /\ calls[p].pc = "idle"
          /\ nextId.submissions <= MaxSubmissions
          /\ \E testId \in TestIds, studentId \in UserIds \cup {UnresolvableId},
                input \in LifecycleAnswerInputs :
                SubmitTestFlow(p, testId, studentId, input)
    \/ \E p \in Callers : CreateSubmissionInsertOne(p)
    \/ \E p \in Callers : CreateSubmissionInsertMany(p)
    \/ \E p \in Callers : CreateSubmissionInsertManyFails(p)
    \/ \E p \in Callers : CreateSubmissionFindOne(p)
    \/ \E submissionId \in SubmissionIds \cup {UnresolvableId}, finalScore \in FinalScoreInputs :
          GradeSubmission(submissionId, finalScore)
    \/ \E submissionId \in SubmissionIds \cup {UnresolvableId} : GetEvaluationData(submissionId)
    \/ \E testId \in TestIds \cup {UnresolvableId} : GetSubmissionsByTest(testId)
    \/ \E studentId \in UserIds \cup {UnresolvableId} : GetSubmissionsByStudent(studentId)

Spec == Init /\ [][Next]_vars

-----------------------------------------------------------------------------
(* The evaluation specification: one test of two questions, three submissions
   with up to two answers each, and the grading view *)

MaxEvaluatedSubmissions == 3
MaxEvaluatedAnswers == 2

EvaluationCatalogs ==
    { <<[type |-> "mcq", marks |-> 1, correct_answer |-> Some("A")],
        [type |-> "subjective", marks |-> 1, correct_answer |-> Null]>> }

\* An answer as the exam page or any other client can send it: nothing, a text,
\* or an image; two answers of a list may name the same question.
EvaluationAnswerInputs ==
    SeqsUpTo({a \in [questionId : QuestionIds, text : {Null, Some("A")}, imageUrl : ImageInputs] :
                 a.text = Null \/ a.imageUrl = Null},
             MaxEvaluatedAnswers)

NextEvaluation ==
    \/ /\ nextId.tests <= MaxTests
       /\ \E qs \in EvaluationCatalogs : CreateTest(qs)
    \/ \E p \in Callers :
          /\ calls[p].pc = "idle"
          /\ nextId.submissions <= MaxEvaluatedSubmissions
          /\ \E testId \in TestIds, studentId \in UserIds, input \in EvaluationAnswerInputs :
                SubmitTestFlow(p, testId, studentId, input)
    \/ \E p \in Callers : CreateSubmissionInsertOne(p)
    \/ \E p \in Callers : CreateSubmissionInsertMany(p)
    \/ \E p \in Callers : CreateSubmissionFindOne(p)
    \/ \E submissionId \in SubmissionIds : GetEvaluationData(submissionId)

SpecEvaluation == Init /\ [][NextEvaluation]_vars

-----------------------------------------------------------------------------
(* The deletion specification: two tests of one question, two submissions,
   the grading view, and deleteTest run to completion while nothing else runs *)

MaxDeletableTests == 2
MaxDeletableSubmissions == 2
MaxDeletableAnswers == 1

DeletionCatalogs == { <<[type |-> "mcq", marks |-> 1, correct_answer |-> Some("A")]>> }

DeletionAnswerInputs ==
    SeqsUpTo([questionId : QuestionIds, text : {Some("A")}, imageUrl : {Null}],
             MaxDeletableAnswers)

NextDelete ==
    \/ /\ del.pc = "idle"
       /\ nextId.tests <= MaxDeletableTests
       /\ \E qs \in DeletionCatalogs : CreateTest(qs)
    \/ \E p \in Callers :
          /\ del.pc = "idle"
          /\ calls[p].pc = "idle"
          /\ nextId.submissions <= MaxDeletableSubmissions
          /\ \E testId \in TestIds \cup {UnresolvableId},
                studentId \in UserIds \cup {UnresolvableId}, input \in DeletionAnswerInputs :
                SubmitTestFlow(p, testId, studentId, input)
    \/ \E p \in Callers : CreateSubmissionInsertOne(p)
    \/ \E p \in Callers : CreateSubmissionInsertMany(p)
    \/ \E p \in Callers : CreateSubmissionFindOne(p)
    \/ /\ del.pc = "idle"
       /\ \E submissionId \in SubmissionIds \cup {UnresolvableId} : GetEvaluationData(submissionId)
    \/ /\ \A p \in Callers : calls[p].pc = "idle"
       /\ \E testId \in TestIds \cup {UnresolvableId} : DeleteTestFlow(testId)
    \/ DeleteTestAnswers
    \/ DeleteTestSubmissions
    \/ DeleteTestQuestions
    \/ DeleteTestOne

SpecDelete == Init /\ [][NextDelete]_vars

-----------------------------------------------------------------------------
(* The cascade specification: deleteTest in steps, any of which may fail,
   interleaved with the steps of submitTest calls on the same tests *)

NextCascade ==
    \/ /\ nextId.tests <= MaxDeletableTests
       /\ \E qs \in DeletionCatalogs : CreateTest(qs)
    \/ \E p \in Callers :
          /\ calls[p].pc = "idle"
          /\ nextId.submissions <= MaxDeletableSubmissions
          /\ \E testId \in TestIds, studentId \in UserIds, input \in DeletionAnswerInputs :
                SubmitTestFlow(p, testId, studentId, input)
    \/ \E p \in Callers : CreateSubmissionInsertOne(p)
    \/ \E p \in Callers : CreateSubmissionInsertMany(p)
    \/ \E p \in Callers : CreateSubmissionFindOne(p)
    \/ \E testId \in TestIds : DeleteTestFlow(testId)
    \/ DeleteTestAnswers
    \/ DeleteTestSubmissions
    \/ DeleteTestQuestions
    \/ DeleteTestOne
    \/ DeleteTestFails

SpecCascade == Init /\ [][NextCascade]_vars

-----------------------------------------------------------------------------
(* The listing specification: two tests, three submissions without answers whose
   test and student ids may be unresolvable or no ObjectId at all, and the three
   listings *)

MaxListedTests == 2
MaxListedSubmissions == 3

NextListing ==
    \/ /\ nextId.tests <= MaxListedTests
       /\ \E qs \in DeletionCatalogs : CreateTest(qs)
    \/ \E p \in Callers :
          /\ calls[p].pc = "idle"
          /\ nextId.submissions <= MaxListedSubmissions
          /\ \E testId \in TestIds \cup {UnresolvableId, MalformedId},
                studentId \in UserIds \cup {UnresolvableId, MalformedId} :
                SubmitTestFlow(p, testId, studentId, <<>>)
    \/ \E p \in Callers : CreateSubmissionInsertOne(p)
    \/ \E p \in Callers : CreateSubmissionFindOne(p)
    \/ \E testId \in TestIds \cup {UnresolvableId, MalformedId} : GetSubmissionsByTest(testId)
    \/ \E teacherId \in UserIds \cup {UnresolvableId} : GetAllSubmissionsByTeacher(teacherId)
    \/ \E studentId \in UserIds \cup {UnresolvableId, MalformedId} :
          GetSubmissionsByStudent(studentId)

SpecListing == Init /\ [][NextListing]_vars

-----------------------------------------------------------------------------
(* The exam page (ExamPage): React state, the timer effect, submitExam *)

MaxExamTimeLimit == 1
MaxPageQuestions == 1
MaxFailedInvocations == 2

\* time_limit: z.coerce.number().int().positive(), in minutes
ExamTimeLimits == 1..MaxExamTimeLimit
PageQuestions == 1..MaxPageQuestions

\* What the callbacks created by one render see: the values of the state
\* hooks at that render (the constants of the function component's body).
Closure(pg) ==
    [testData |-> pg.testData, answers |-> pg.answers, timeLeft |-> pg.timeLeft,
     isSubmitting |-> pg.isSubmitting]

\* submitExam(isTimeout) up to its await: the guard reads isSubmitting and
\* testData of the render that created the callback (c), then
\* setIsSubmitting(true) and the call of submitTest with that render's answers.
submitExam(pg, c, isTimeout) ==
    IF c.isSubmitting \/ ~c.testData
    THEN pg
    ELSE [pg EXCEPT !.isSubmitting = TRUE,
                    !.inFlight = Append(@, [isTimeout |-> isTimeout, answers |-> c.answers]),
                    !.invoked = @ + 1]

\* The timer effect of a render with closure c: the previous effect's cleanup
\* (clearInterval), then the body.
TimerEffect(pg, c) ==
    LET cleaned == [pg EXCEPT !.interval = FALSE, !.effectPending = FALSE]
    IN  IF c.timeLeft = Null
        THEN cleaned
        ELSE IF c.timeLeft[1] <= 0
             THEN IF ~c.isSubmitting THEN submitExam(cleaned, c, TRUE) ELSE cleaned
             ELSE [cleaned EXCEPT !.interval = TRUE]

\* A callback has taken the page from state old to state new by calling state
\* setters. React renders again: a timer effect still pending from the
\* previous render runs first, with that render's closure; the new render
\* schedules the timer effect again when one of its dependencies
\* [timeLeft, isSubmitting] differs from the previous render's.
Commit(old, new) ==
    LET flushed == IF old.effectPending THEN TimerEffect(new, Closure(old)) ELSE new
    IN  IF <<flushed.timeLeft, flushed.isSubmitting>> # <<old.timeLeft, old.isSubmitting>>
        THEN [flushed EXCEPT !.effectPending = TRUE]
        ELSE flushed

PageFrame ==
    UNCHANGED <<users, tests, questions, submissions, answers, nextId, clock,
                calls, graded, last, del, userCalls>>

\* fetchTestData resolves with a test: setTestData, setTimeLeft(time_limit * 60)
FetchTestData(timeLimit) ==
    /\ page.mounted
    /\ ~page.testData
    /\ page' = Commit(page, [page EXCEPT !.testData = TRUE,
                                         !.timeLeft = Some(timeLimit * 60)])
    /\ PageFrame

\* fetchTestData finds no test, or getTestById / getQuestionsByTest rejects:
\* router.push('/student/dashboard')
FetchTestDataFails ==
    /\ page.mounted
    /\ ~page.testData
    /\ page' = [page EXCEPT !.mounted = FALSE]
    /\ PageFrame

\* The form is on screen: not the 'Loading test...' placeholder.
FormShown == page.mounted /\ page.testData /\ page.timeLeft # Null

\* handleTextChange / handleImageChange: setAnswers
HandleTextChange(questionId) ==
    /\ FormShown
    /\ questionId \notin page.answers
    /\ page' = Commit(page, [page EXCEPT !.answers = @ \cup {questionId}])
    /\ PageFrame

\* The pending timer effect runs after its render.
RunTimerEffect ==
    /\ page.mounted
    /\ page.effectPending
    /\ page' = Commit(page, page)
    /\ PageFrame

\* The interval's callback: setTimeLeft(prevTime => prevTime ? prevTime - 1 : 0)
Tick ==
    /\ page.mounted
    /\ page.interval
    /\ page' = Commit(page, [page EXCEPT !.timeLeft =
                   IF @ # Null /\ @ # Some(0) THEN Some(@[1] - 1) ELSE Some(0)])
    /\ PageFrame

\* A click on 'Submit Exam' (disabled={isSubmitting}): submitExam(false)
ClickSubmit ==
    /\ FormShown
    /\ ~page.isSubmitting
    /\ page' = Commit(page, submitExam(page, Closure(page), FALSE))
    /\ PageFrame

RemoveAt(seq, i) == SubSeq(seq, 1, i - 1) \o SubSeq(seq, i + 1, Len(seq))

\* await submitTest(...) resolves: the timeout dialog, or the toast and
\* router.push("/student/results"). isSubmitting stays true.
SubmitTestResolves(i) ==
    /\ i \in 1..Len(page.inFlight)
    /\ LET done == [page EXCEPT !.inFlight = RemoveAt(@, i), !.succeeded = @ + 1]
       IN  page' = IF ~page.mounted
                   THEN done
                   ELSE IF page.inFlight[i].isTimeout
                        THEN Commit(page, [done EXCEPT !.showTimeoutAlert = TRUE])
                        ELSE [done EXCEPT !.mounted = FALSE]
    /\ PageFrame

\* await submitTest(...) rejects: the catch block, setIsSubmitting(false)
SubmitTestRejects(i) ==
    /\ i \in 1..Len(page.inFlight)
    /\ page.failed < MaxFailedInvocations
    /\ LET done == [page EXCEPT !.inFlight = RemoveAt(@, i), !.failed = @ + 1]
       IN  page' = IF ~page.mounted
                   THEN done
                   ELSE Commit(page, [done EXCEPT !.isSubmitting = FALSE])
    /\ PageFrame

\* 'View Results' in the timeout dialog: router.push('/student/results')
ViewResults ==
    /\ page.mounted
    /\ page.showTimeoutAlert
    /\ page' = [page EXCEPT !.mounted = FALSE]
    /\ PageFrame

NextExamPage ==
    \/ \E timeLimit \in ExamTimeLimits : FetchTestData(timeLimit)
    \/ FetchTestDataFails
    \/ \E questionId \in PageQuestions : HandleTextChange(questionId)
    \/ RunTimerEffect
    \/ Tick
    \/ ClickSubmit
    \/ \E i \in 1..Len(page.inFlight) : SubmitTestResolves(i)
    \/ \E i \in 1..Len(page.inFlight) : SubmitTestRejects(i)
    \/ ViewResults

SpecExamPage == Init /\ [][NextExamPage]_vars

-----------------------------------------------------------------------------
(* Users: registerStudent, createTeacher, updateUser *)

MaxUsers == 3

\* email: z.string().email()
Emails == {"admin@example.com", "a@example.com", "b@example.com"}

\* db.getUserByEmail: findOne({email})
getUserByEmail(email) == {u \in users : u.email = email}

UserFrame ==
    UNCHANGED <<tests, questions, submissions, answers, clock, calls, graded,
                del, page>>

\* The flow up to its call of db.createUser: the lookup by email, and the
\* error when it finds a user.
ExistingUserCheck(p, op, role, email, message) ==
    /\ userCalls[p].pc = "idle"
    /\ nextId.users <= MaxUsers
    /\ IF getUserByEmail(email) # {}
       THEN /\ last' = [op |-> op, outcome |-> message, email |-> email]
            /\ UNCHANGED userCalls
       ELSE /\ userCalls' = [userCalls EXCEPT ![p] =
                                [pc |-> "create", op |-> op, role |-> role,
                                 email |-> Some(email)]]
            /\ UNCHANGED last
    /\ UNCHANGED <<users, nextId>>
    /\ UserFrame

\* registerStudentFlow: getUserByEmail, throw when taken
RegisterStudentFlow(p, email) ==
    ExistingUserCheck(p, "registerStudent", "student", email,
                      "User with this email already exists.")

\* createTeacherFlow: getUserByEmail, throw when taken
CreateTeacherFlow(p, email) ==
    ExistingUserCheck(p, "createTeacher", "teacher", email,
                      "Teacher with this email already exists.")

\* db.createUser: insertOne({...data}), findOne({_id: insertedId}); the flow
\* returns the new user.
CreateUser(p) ==
    /\ userCalls[p].pc = "create"
    /\ LET id == nextId.users
           email == userCalls[p].email[1]
       IN  /\ users' = users \cup {[id |-> id, email |-> email, role |-> userCalls[p].role]}
           /\ last' = [op |-> userCalls[p].op, outcome |-> "ok", email |-> email, id |-> id]
    /\ nextId' = [nextId EXCEPT !.users = @ + 1]
    /\ userCalls' = [userCalls EXCEPT ![p] = IdleUserCall]
    /\ UserFrame

\* updateUserFlow: db.updateUser(id, updateData), findOneAndUpdate $set
UpdateUserFlow(id, email) ==
    /\ IF id = MalformedId
       THEN /\ last' = [op |-> "updateUser", outcome |-> "Invalid ID format", id |-> id]
            /\ UNCHANGED users
       ELSE IF id \notin UserIds
       THEN /\ last' = [op |-> "updateUser", outcome |-> "User not found", id |-> id]
            /\ UNCHANGED users
       ELSE /\ users' = {IF u.id = id /\ email # Null
                         THEN [u EXCEPT !.email = email[1]]
                         ELSE u : u \in users}
            /\ last' = [op |-> "updateUser", outcome |-> "ok", id |-> id, email |-> email]
    /\ UNCHANGED <<nextId, userCalls>>
    /\ UserFrame

NextUsers ==
    \/ \E p \in UserCallers : \E email \in Emails : RegisterStudentFlow(p, email)
    \/ \E p \in UserCallers : \E email \in Emails : CreateTeacherFlow(p, email)
    \/ \E p \in UserCallers : CreateUser(p)
    \/ \E id \in UserIds \cup {UnresolvableId, MalformedId} :
           \E email \in {Null} \cup {Some(e) : e \in Emails} : UpdateUserFlow(id, email)

SpecUsers == Init /\ [][NextUsers]_vars

-----------------------------------------------------------------------------
(* Properties of scoring and of the initial grading state (SpecScoring) *)

Catalog(s) == getQuestionsByTest(s.test_id)
OnExistingTest(s) == s.test_id \in TestIds
SubjectivePresent(s) == \E q \in Catalog(s) : q.type = "subjective"

\* The answers of submission s have been written (or there are none to write).
AnswersWritten(s) ==
    ~ \E p \in Callers : calls[p].pc = "insertMany" /\ calls[p].id = Some(s.id)

\* The stored answers of s that answer an objective question of s's test.
ObjectiveAnswers(s) ==
    {a \in getAnswersBySubmission(s.id) :
        \E q \in Catalog(s) : q.id = a.question_id /\ q.type = "mcq"}

CorrectAnswers(s) ==
    {a \in ObjectiveAnswers(s) :
        \E q \in Catalog(s) : q.id = a.question_id /\ q.correct_answer = a.answer_text}

\* The integer nearest to n / d, halves upward, stated without a division.
Nearest(n, d) == CHOOSE r \in 0..100 : 2 * (n - r * d) >= -d /\ 2 * (n - r * d) < d

\* C1: a submission created on a test whose catalog has no subjective question
\* is Graded and its final score is its objective score.
C1_AutoGraded ==
    \A s \in submissions :
        (OnExistingTest(s) /\ ~SubjectivePresent(s))
            => (s.status = "Graded" /\ s.final_score = s.mcq_score)

C1_Witness ==
    \E s \in submissions :
        /\ OnExistingTest(s) /\ Catalog(s) # {} /\ ~SubjectivePresent(s)
        /\ s.status = "Graded" /\ s.final_score = Some(50)

\* C2: a submission created on a test with at least one subjective question is
\* Pending with a null final score whatever was answered; with one objective
\* and one subjective question and only the objective one answered, correctly,
\* the objective score is 100.
C2_PendingWhenSubjective ==
    \A s \in submissions :
        (OnExistingTest(s) /\ SubjectivePresent(s))
            => /\ s.status = "Pending"
               /\ s.final_score = Null
               /\ (/\ AnswersWritten(s)
                   /\ Cardinality(Catalog(s)) = 2
                   /\ Cardinality(getAnswersBySubmission(s.id)) = 1
                   /\ Cardinality(CorrectAnswers(s)) = 1) => s.mcq_score = Some(100)

C2_Witness ==
    \E s \in submissions :
        /\ OnExistingTest(s) /\ SubjectivePresent(s) /\ AnswersWritten(s)
        /\ Cardinality(Catalog(s)) = 2
        /\ Cardinality(getAnswersBySubmission(s.id)) = 1
        /\ Cardinality(CorrectAnswers(s)) = 1
        /\ s.mcq_score = Some(100) /\ s.final_score = Null /\ s.status = "Pending"

\* C3: the stored objective score is round(correct / total * 100) over the
\* submitted answers to objective questions, null when there is none; the
\* marks of the questions play no part.
C3_ObjectiveScore ==
    \A s \in submissions :
        AnswersWritten(s) =>
            LET total == Cardinality(ObjectiveAnswers(s))
                correct == Cardinality(CorrectAnswers(s))
            IN s.mcq_score = IF total = 0 THEN Null ELSE Some(Nearest(100 * correct, total))

\* Two of three right on questions of different marks: 67, not 66 and not weighted.
C3_Witness ==
    \E s \in submissions :
        /\ AnswersWritten(s)
        /\ Cardinality(ObjectiveAnswers(s)) = 3
        /\ Cardinality(CorrectAnswers(s)) = 2
        /\ \E q1, q2 \in Catalog(s) : q1.marks # q2.marks
        /\ s.mcq_score = Some(67)

\* C4: in a test of two objective questions and nothing else, one question
\* answered correctly and the other answered wrongly or left out of the
\* submission scores 50, final 50, Graded.
C4_OneOfTwo ==
    \A s \in submissions :
        (/\ AnswersWritten(s)
         /\ OnExistingTest(s)
         /\ Cardinality(Catalog(s)) = 2
         /\ \A q \in Catalog(s) : q.type = "mcq"
         /\ \A a \in getAnswersBySubmission(s.id) : a \in ObjectiveAnswers(s)
         /\ \A a, b \in getAnswersBySubmission(s.id) : a.question_id = b.question_id => a = b
         /\ Cardinality(CorrectAnswers(s)) = 1)
            => (s.mcq_score = Some(50) /\ s.final_score = Some(50) /\ s.status = "Graded")

\* C5: a stored answer carries a correctness flag exactly when its question is
\* objective, and the flag is true exactly when the text is the key itself.
C5_CorrectnessFlag ==
    \A s \in submissions : \A a \in getAnswersBySubmission(s.id) :
        /\ a.is_correct # Null <=> a \in ObjectiveAnswers(s)
        /\ a.is_correct = Some(TRUE) <=> a \in CorrectAnswers(s)
        /\ a.is_correct \in {Null, Some(TRUE), Some(FALSE)}

\* Near misses of the key are flagged false, a subjective answer not at all.
C5_Witness ==
    \E s \in submissions : \E a, b, c \in getAnswersBySubmission(s.id) :
        /\ a.answer_text = Some("a") /\ a.is_correct = Some(FALSE)
        /\ \E q \in Catalog(s) : q.id = a.question_id /\ q.correct_answer = Some("A")
        /\ b.answer_text = Some("A ") /\ b.is_correct = Some(FALSE)
        /\ b.question_id = a.question_id
        /\ c.answer_text = Some("A") /\ c.is_correct = Null
        /\ \E q \in Catalog(s) : q.id = c.question_id /\ q.type = "subjective"

\* C10: a submitTest whose testId or studentId resolves to nothing ends in a
\* validation error and creates no submission.
C10_UnresolvedRejected ==
    (/\ last.op = "submitTest"
     /\ (last.testId \notin TestIds \/ last.studentId \notin UserIds))
        => (last.outcome = "ValidationError" /\ last.created = Null)

-----------------------------------------------------------------------------
(* Properties of the submission lifecycle (Spec) *)

\* C6: a gradeSubmission on an existing submission with a score in 0..100
\* succeeds and overwrites, also when the submission is Graded already; the
\* final score of a submission is the score of the last successful grading.
C6_LastWriteWins ==
    /\ \A s \in submissions :
          s.id \in DOMAIN graded =>
              (s.final_score = Some(graded[s.id]) /\ s.status = "Graded")
    /\ (/\ last.op = "gradeSubmission"
        /\ last.finalScore >= 0 /\ last.finalScore <= 100
        /\ last.submissionId \in SubmissionIds)
          => /\ last.outcome = "ok"
             /\ \A s \in submissions :
                   s.id = last.submissionId =>
                       (s.final_score = Some(last.finalScore) /\ s.status = "Graded")

\* A submission that was Graded at creation (final = objective score 100) has
\* been graded again, to 88.
C6_Witness ==
    \E s \in submissions :
        /\ ~SubjectivePresent(s)
        /\ s.mcq_score = Some(100)
        /\ s.id \in DOMAIN graded /\ graded[s.id] = 88
        /\ s.final_score = Some(88) /\ s.status = "Graded"
        /\ last.op = "gradeSubmission" /\ last.submissionId = s.id

\* C7: in every step a stored submission keeps its status or goes from Pending
\* to Graded; a Graded submission is never Pending again.
C7_PendingToGradedOnly ==
    [][\A s \in submissions : \A t \in submissions' :
          (s.id = t.id /\ s.status # t.status)
              => (s.status = "Pending" /\ t.status = "Graded")]_vars

\* A submission created Pending has been graded, and another one after it.
C7_Witness ==
    \E s \in submissions :
        /\ SubjectivePresent(s)
        /\ s.status = "Graded"
        /\ s.id \in DOMAIN graded
        /\ last.op = "gradeSubmission" /\ last.outcome = "ok" /\ last.submissionId # s.id

\* C8: after a submitTest that failed, the submission record it wrote is gone.
C8_CompensatingDelete ==
    (last.op = "submitTest" /\ last.outcome # "ok" /\ last.created # Null)
        => last.created[1] \notin SubmissionIds

\* C9: a grading view never lists a submission whose answers are still to be written.
C9_HiddenUntilAnswered ==
    \A p \in Callers :
        (calls[p].pc = "insertMany" /\ last.op = "getEvaluationData" /\ last.outcome = "ok")
            => calls[p].id[1] \notin last.allSubmissions


-----------------------------------------------------------------------------
(* Properties of grading and of what it leaves alone (Spec) *)

\* A step that completes a call of the operation op. A call that repeats the last
\* completed call with the same result leaves `last` as it is; such a step of a
\* read or of a failed call is a stuttering step.
Completes(op) == last' # last /\ last'.op = op

C12_OutOfRangeRejected ==
    [][(/\ Completes("gradeSubmission")
        /\ (last'.finalScore < 0 \/ last'.finalScore > 100))
       => (last'.outcome = "ValidationError" /\ submissions' = submissions)]_vars

\* A score of 101 was rejected for a stored submission that is still Pending.
C12_Witness ==
    /\ last.op = "gradeSubmission" /\ last.outcome = "ValidationError"
    /\ last.finalScore = 101
    /\ \E s \in submissions : s.id = last.submissionId /\ s.status = "Pending"
                              /\ s.final_score = Null

\* C13: in every reachable state the mcq_score of each submission is null or an
\* integer from 0 to 100, and its final_score is null or lies between 0 and 100.
C13_ScoresInRange ==
    \A s \in submissions :
        /\ s.mcq_score = Null \/ (Len(s.mcq_score) = 1 /\ s.mcq_score[1] \in 0..100)
        /\ s.final_score = Null
           \/ (Len(s.final_score) = 1 /\ s.final_score[1] >= 0 /\ s.final_score[1] <= 100)

\* A submission scored 0 on its objective part has been graded 88 after attempts
\* to grade with a score outside the range.
C13_Witness ==
    /\ \E s \in submissions : s.mcq_score = Some(0) /\ s.final_score = Some(88)
    /\ last.op = "gradeSubmission" /\ last.outcome = "ValidationError"

\* C14: getEvaluationData of a submission that was graded successfully, with no
\* grading after the last one, returns status Graded and the score of that
\* grading as final_score, together with the stored mcq_score and answers.
C14_GradedViewShowsScore ==
    [][(/\ Completes("getEvaluationData")
        /\ last'.outcome = "ok"
        /\ last'.submissionId \in DOMAIN graded)
       => (/\ last'.submission.status = "Graded"
           /\ last'.submission.final_score = Some(graded[last'.submissionId])
           /\ \A s \in submissions :
                 s.id = last'.submissionId => last'.submission.mcq_score = s.mcq_score
           /\ \A a \in answers :
                 a.submission_id = last'.submissionId =>
                    \E v \in last'.answers : /\ v.id = a.id
                                             /\ v.question_id = a.question_id
                                             /\ v.answer_text = a.answer_text
                                             /\ v.answer_image_url = a.answer_image_url
           /\ \A v \in last'.answers :
                 \E a \in answers : a.id = v.id /\ a.submission_id = last'.submissionId)]_vars

\* A Pending submission with an objective score and an answer was graded 88 and
\* then viewed.
C14_Witness ==
    /\ last.op = "getEvaluationData" /\ last.outcome = "ok"
    /\ last.submissionId \in DOMAIN graded
    /\ graded[last.submissionId] = 88
    /\ last.submission.final_score = Some(88)
    /\ last.submission.mcq_score = Some(100)
    /\ last.answers # {}
    /\ \E q \in last.questions : q.type = "subjective"

\* C15: gradeSubmission changes nothing but the final_score and status of its
\* target: test_id, student_id, submitted_at and mcq_score of a submission never
\* change, an Answer record is never modified once created, a grading leaves every
\* other submission and every collection but the submissions as it was, and
\* getEvaluationData and the listings change no stored record.
C15_Frame ==
    [][/\ \A s \in submissions : \A t \in submissions' :
             s.id = t.id => /\ t.test_id = s.test_id
                            /\ t.student_id = s.student_id
                            /\ t.submitted_at = s.submitted_at
                            /\ t.mcq_score = s.mcq_score
       /\ \A a \in answers : \A b \in answers' : a.id = b.id => a = b
       /\ Completes("gradeSubmission") =>
             /\ \A s \in submissions : s.id # last'.submissionId => s \in submissions'
             /\ SubmissionIds' = SubmissionIds
             /\ UNCHANGED <<users, tests, questions, answers,
                   page, userCalls>>
       /\ (\/ Completes("getEvaluationData")
           \/ Completes("getSubmissionsByTest")
           \/ Completes("getSubmissionsByStudent")) =>
             UNCHANGED <<users, tests, questions, submissions, answers,
                   page, userCalls>>]_vars

\* A submission with an objective score and an answer was graded while another
\* submission is stored.
C15_Witness ==
    /\ last.op = "gradeSubmission" /\ last.outcome = "ok"
    /\ \E s \in submissions : \E t \in submissions :
          /\ s.id = last.submissionId /\ t.id # s.id
          /\ s.mcq_score # Null
          /\ s.final_score = Some(last.finalScore)
          /\ getAnswersBySubmission(s.id) # {}
          /\ getAnswersBySubmission(t.id) # {}

\* What a submitTest call sent for an answer, as stored.
AnswerContent(S) ==
    {[question_id |-> a.question_id, answer_text |-> a.answer_text,
      answer_image_url |-> a.answer_image_url] : a \in S}

\* C16: submitTest is not idempotent. Every call that reaches the store inserts a
\* new Submission record under an id no stored submission has, whatever is stored
\* already; its Answer records are new records that reference that submission;
\* and no step of a call changes or removes a record stored before.
C16_NotIdempotent ==
    [][calls' # calls =>
         /\ submissions \subseteq submissions'
         /\ answers \subseteq answers'
         /\ \A p \in Callers :
               (calls[p].pc = "insertOne" /\ calls'[p].pc # "insertOne") =>
                  \E s \in submissions' \ submissions :
                     /\ s.id \notin SubmissionIds
                     /\ calls'[p].id = Some(s.id)
                     /\ submissions' = submissions \cup {s}
         /\ \A p \in Callers :
               (calls[p].pc = "insertMany" /\ calls'[p].pc = "findOne") =>
                  /\ Cardinality(answers' \ answers) = Len(calls[p].answers)
                  /\ \A a \in answers' \ answers :
                        /\ a.submission_id = calls[p].id[1]
                        /\ \A b \in answers : b.id # a.id
         /\ (Completes("submitTest") /\ last'.outcome = "ok") =>
               /\ last'.value[1] \in SubmissionIds
               /\ last.op = "submitTest" /\ last.outcome = "ok" => last'.value # last.value]_vars

\* Two calls with the same test, student and answers have both succeeded: two
\* submissions with different ids, each with its own answer of the same content.
C16_Witness ==
    /\ last.op = "submitTest" /\ last.outcome = "ok"
    /\ \E s \in submissions : \E t \in submissions :
          /\ s.id # t.id /\ last.value = Some(t.id)
          /\ s.test_id = t.test_id /\ s.student_id = t.student_id
          /\ s.mcq_score = t.mcq_score /\ s.status = t.status
          /\ getAnswersBySubmission(s.id) # {}
          /\ AnswerContent(getAnswersBySubmission(s.id)) = AnswerContent(getAnswersBySubmission(t.id))
          /\ \A a \in getAnswersBySubmission(s.id) : a \notin getAnswersBySubmission(t.id)

-----------------------------------------------------------------------------
(* Properties of the skip statistics (SpecEvaluation) *)

\* The stored answers of submission sub to question q.
AnswersTo(sub, q) == {a \in answers : a.submission_id = sub.id /\ a.question_id = q.id}

\* The submissions of the test of the submission a view was asked for.
ViewedTest(view) == {s \in submissions : s.test_id = view.submission.test_id}

\* The number of skipping submissions a view reports for question q: the
\* reported percentage num / den of n submissions stands for num * n / (100 * den).
ReportedSkips(view, q, k) ==
    \E st \in view.questionStats :
        /\ st.questionId = q.id
        /\ st.skipPercentage.num * Cardinality(ViewedTest(view)) = 100 * k * st.skipPercentage.den

\* C18: a submission counts as having skipped q exactly when it has no Answer
\* record for q or an Answer for q with null text and no image, and a submission
\* holding an answer to q with a text or an image is never counted.
C18_SkippedExactly ==
    [][(Completes("getEvaluationData") /\ last'.outcome = "ok") =>
         \A q \in last'.questions :
            LET empty == {sub \in ViewedTest(last') :
                            \/ AnswersTo(sub, q) = {}
                            \/ \E a \in AnswersTo(sub, q) :
                                  a.answer_text = Null /\ a.answer_image_url = Null}
                answered == {sub \in ViewedTest(last') :
                               \E a \in AnswersTo(sub, q) :
                                  a.answer_text # Null \/ a.answer_image_url # Null}
            IN /\ ReportedSkips(last', q, Cardinality(empty))
               /\ \E k \in 0..Cardinality(ViewedTest(last') \ answered) :
                     ReportedSkips(last', q, k)]_vars

\* Whether the statistics count sub as skipping q: it has no answer to q, or
\* the answer to q stored first has neither text nor image.
CountedAsSkipping(sub, q) ==
    \A a \in AnswersTo(sub, q) :
        (\A b \in AnswersTo(sub, q) : a.id <= b.id) =>
            (a.answer_text = Null /\ a.answer_image_url = Null)

-----------------------------------------------------------------------------
(* Properties of the grading view's lookups and of deleteTest (SpecDelete) *)

Deleting == IF del.pc # "idle" THEN del.testId ELSE del'.testId

\* C20: deleteTest(T) run to completion while nothing else runs deletes the
\* answers of T's submissions, then T's submissions, then T's questions, then the
\* test record: a submission goes only when no answer references it, a question
\* only when its test has no submission, the test only when it has no question.
\* When the call returns, no submission or question of T, no answer of such a
\* submission and no test T is stored, and no step has touched a record of
\* another test.
C20_DeleteCascade ==
    [][del' # del =>
         /\ \A s \in submissions \ submissions' :
               s.test_id = Deleting[1] /\ \A a \in answers : a.submission_id # s.id
         /\ \A q \in questions \ questions' :
               q.test_id = Deleting[1] /\ \A s \in submissions : s.test_id # q.test_id
         /\ \A t \in tests \ tests' :
               t.id = Deleting[1] /\ \A q \in questions : q.test_id # t.id
         /\ \A a \in answers \ answers' :
               \E s \in submissions : s.id = a.submission_id /\ s.test_id = Deleting[1]
         /\ submissions' \subseteq submissions /\ questions' \subseteq questions
         /\ tests' \subseteq tests /\ answers' \subseteq answers
         /\ Completes("deleteTest") =>
               /\ last'.outcome = "ok" /\ last'.testId = Deleting[1]
               /\ \A t \in tests' : t.id # Deleting[1]
               /\ \A q \in questions' : q.test_id # Deleting[1]
               /\ \A s \in submissions' : s.test_id # Deleting[1]
               /\ \A a \in answers' :
                     \E s \in submissions' : s.id = a.submission_id]_vars

\* A test with a submission and its answer has been deleted; the other test, its
\* question, its submission and that submission's answer are still stored.
C20_Witness ==
    /\ last.op = "deleteTest" /\ last.deletedCount = 1
    /\ del.pc = "idle"
    /\ nextId.submissions = 3 /\ nextId.answers = 3
    /\ \E t \in tests : \E q \in questions : \E s \in submissions : \E a \in answers :
          /\ t.id # last.testId
          /\ q.test_id = t.id /\ s.test_id = t.id /\ a.submission_id = s.id
          /\ submissions = {s} /\ answers = {a} /\ questions = {q} /\ tests = {t}

-----------------------------------------------------------------------------
(* Properties of deleteTest under interleaving and failure (SpecCascade) *)

\* C21: no orphaned Answer ever exists: in every reachable state, also while or
\* after deleteTest interleaves with a submitTest on the same test or stops at a
\* failed step, the submission_id of every stored Answer is the id of a stored
\* Submission.
C21_NoOrphanedAnswer ==
    \A a \in answers : \E s \in submissions : s.id = a.submission_id

\* C22: when a step of the deleteTest cascade fails the call ends with an error
\* raised to its caller and restores nothing: the call reports success only when
\* its last step, the deletion of the test record, has run, and the step that ends
\* a failed call leaves every collection as the earlier steps left it.
C22_PartialCascadeRaised ==
    [][(del.pc # "idle" /\ del'.pc = "idle") =>
         /\ last'.op = "deleteTest" /\ last'.testId = del.testId[1]
         /\ (last'.outcome = "ok" \/ last'.value # Null) =>
               (del.pc = "test" /\ \A t \in tests' : t.id # del.testId[1])
         /\ (tests' = tests /\ \E t \in tests : t.id = del.testId[1]) =>
               /\ last'.outcome # "ok" /\ last'.value = Null
               /\ UNCHANGED <<users, tests, questions, submissions, answers,
                   page, userCalls>>]_vars

\* The deletion of the submissions failed after the answers were deleted: the
\* call ended with an error, the test still has its question and a submission,
\* and the answer that submission had is gone.
C22_Witness ==
    /\ last.op = "deleteTest" /\ last.outcome = "PersistenceError"
    /\ last.failedAt = "submissions"
    /\ del.pc = "idle"
    /\ \A p \in Callers : calls[p].pc = "idle"
    /\ last.testId \in TestIds
    /\ \E q \in questions : q.test_id = last.testId
    /\ \E s \in submissions : s.test_id = last.testId
    /\ answers = {} /\ nextId.answers > 1

-----------------------------------------------------------------------------
(* Properties of the listings (SpecListing) *)

\* The ids of the rows of a listing.
RowIds(rows) == {rows[i].id : i \in DOMAIN rows}

\* C23: getSubmissionsByTest, getAllSubmissionsByTeacher and
\* getSubmissionsByStudent never fail because of a submission whose student or
\* test cannot be resolved: they return every matching submission whose student
\* (for getSubmissionsByStudent also whose test) resolves, and only those.
C23_ListingsDropUnresolved ==
    [][/\ Completes("getSubmissionsByTest") =>
             /\ last'.outcome = "ok"
             /\ RowIds(last'.rows) =
                   {s.id : s \in {x \in submissions : /\ x.test_id = last'.testId
                                                       /\ x.student_id \in UserIds}}
       /\ Completes("getAllSubmissionsByTeacher") =>
             /\ last'.outcome = "ok"
             /\ RowIds(last'.rows) =
                   {s.id : s \in {x \in submissions :
                                    /\ \E t \in tests : /\ t.id = x.test_id
                                                        /\ t.created_by = last'.teacherId
                                    /\ x.student_id \in UserIds}}
       /\ Completes("getSubmissionsByStudent") =>
             /\ last'.outcome = "ok"
             /\ RowIds(last'.rows) =
                   {s.id : s \in {x \in submissions : /\ x.student_id = last'.studentId
                                                       /\ x.student_id \in UserIds
                                                       /\ x.test_id \in TestIds}}]_vars

-----------------------------------------------------------------------------
(* Properties of the stored data and of the view's statistics
   (SpecDelete, SpecScoring) *)

\* C24: the questionStats of a successful getEvaluationData hold exactly one
\* entry for every question of the viewed submission's test, also for questions
\* the submission has no answer to, and no entry for a question of another test.
C24_OneStatPerQuestion ==
    [][(Completes("getEvaluationData") /\ last'.outcome = "ok") =>
         LET catalog == {q \in questions : q.test_id = last'.submission.test_id}
         IN /\ {st.questionId : st \in last'.questionStats} = {q.id : q \in catalog}
            /\ Cardinality(last'.questionStats) = Cardinality(catalog)
            /\ last'.questions = catalog]_vars

\* A view of a submission without answers on a test with a question, while
\* another test with its own question is stored.
C24_Witness ==
    /\ last.op = "getEvaluationData" /\ last.outcome = "ok"
    /\ last.answers = {}
    /\ getAnswersBySubmission(last.submissionId) = {}
    /\ Cardinality(last.questionStats) = 1
    /\ \E q \in questions : /\ q.test_id # last.submission.test_id
                            /\ \A st \in last.questionStats : st.questionId # q.id

\* A submission whose test and student are stored.
References(s) == s.test_id \in TestIds /\ s.student_id \in UserIds

\* C25: every stored Answer references a stored Question, and that question
\* belongs to the test of the answer's submission (stated for the submissions
\* whose test and student resolve).
C25_AnswersReferenceCatalog ==
    \A a \in answers : \A s \in submissions :
        (s.id = a.submission_id /\ References(s)) =>
            \E q \in questions : q.id = a.question_id /\ q.test_id = s.test_id

\* C26: a submission with status Graded has a non-null final_score (stated for
\* the submissions whose test and student resolve).
C26_GradedHasScore ==
    \A s \in submissions : (s.status = "Graded" /\ References(s)) => s.final_score # Null

\* C27: a submission has at most one Answer record per question, and so no more
\* answers to objective questions than its test has objective questions (stated
\* for the submissions whose test and student resolve and whose answers all name
\* questions of the test).
C27_OneAnswerPerQuestion ==
    \A s \in submissions :
      (/\ References(s)
       /\ \A a \in getAnswersBySubmission(s.id) : \E q \in Catalog(s) : q.id = a.question_id) =>
        /\ \A a \in getAnswersBySubmission(s.id) : \A b \in getAnswersBySubmission(s.id) :
              a.question_id = b.question_id => a = b
        /\ Cardinality(ObjectiveAnswers(s)) <=
              Cardinality({q \in Catalog(s) : q.type = "mcq"})

-----------------------------------------------------------------------------
(* Properties of the exam page (SpecExamPage) *)

\* C28: within one session of the exam page, submitTest is invoked only while
\* no earlier invocation is in flight and only while none has succeeded, by
\* click and by timer alike: every step invokes at most once, and only from a
\* state without an invocation in flight and without a success.
C28_OneSubmissionAtATime ==
    [][page'.invoked # page.invoked =>
          /\ page'.invoked = page.invoked + 1
          /\ page.inFlight = <<>>
          /\ page.succeeded = 0]_vars

\* The invocations a step adds to those in flight.
Invoked(isTimeout) ==
    {i \in 1..Len(page'.inFlight) :
        /\ i > Len(page.inFlight)
        /\ page'.inFlight[i].isTimeout = isTimeout}

\* C29: the timer starts at time_limit * 60, goes down one at a time and
\* never below 0; at 0 it has stopped; once the timer effect has run at 0 a
\* submission has been started; an invocation by timeout happens at 0 only,
\* carries the answers entered so far, and never joins a submission already
\* in progress.
C29_TimerCountsDownAndSubmits ==
    [][/\ page'.timeLeft # page.timeLeft =>
              \/ page.timeLeft = Null /\ \E timeLimit \in ExamTimeLimits :
                                             page'.timeLeft = Some(timeLimit * 60)
              \/ page.timeLeft # Null /\ page.timeLeft[1] > 0
                                      /\ page'.timeLeft = Some(page.timeLeft[1] - 1)
       /\ page'.timeLeft # Null => page'.timeLeft[1] >= 0
       /\ (page'.timeLeft = Some(0) /\ ~page'.effectPending) => ~page'.interval
       /\ (page'.testData /\ page'.timeLeft = Some(0) /\ ~page'.effectPending)
              => page'.isSubmitting
       /\ \A i \in Invoked(TRUE) :
              /\ page.timeLeft = Some(0)
              /\ page'.inFlight[i].answers = page.answers
       /\ Invoked(TRUE) # {} => Len(page'.inFlight) = 1]_vars

-----------------------------------------------------------------------------
(* Properties of the users (SpecUsers) *)

UniqueEmails(us) == \A u1, u2 \in us : u1.email = u2.email => u1 = u2

\* C30: no two stored users share an email, after every step of every
\* interleaving of registerStudent, createTeacher and updateUser; and a
\* registerStudent or createTeacher call that completes for an email a stored
\* user has fails and stores nothing.
C30_UniqueEmails ==
    [][/\ UniqueEmails(users')
       /\ (/\ last' # last
           /\ last'.op \in {"registerStudent", "createTeacher"}
           /\ \E u \in users : u.email = last'.email)
              => (users' = users /\ last'.outcome # "ok")]_vars

====
